---------------------------- MODULE Spec2Model ----------------------------
(***************************************************************************)
(* Model of VeeamTask.py: one-way periodic mirroring of a source directory *)
(* tree onto a replica directory tree.                                     *)
(*                                                                         *)
(* The program's state is the live filesystem (kind, content and           *)
(* modification time of every path), the clock that stamps directory       *)
(* writes, and the position of main's loop.  `trace` is the history of one *)
(* pass: the logging events the program emits, interleaved with the        *)
(* filesystem operations and the observations it makes.                    *)
(***************************************************************************)
EXTENDS Integers, Sequences, FiniteSets, TLC

VARIABLES fs, now, trace, pc, lastResult, prevResult, fsStart, faults,
          md5_source, md5_replica

vars == <<fs, now, trace, pc, lastResult, prevResult, fsStart, faults,
          md5_source, md5_replica>>

(***************************************************************************)
(* Bounds of the model.                                                    *)
(***************************************************************************)
MaxDepth == 2          \* depth of the trees below each root
MaxTime == 2           \* modification times and the clock range over 1..MaxTime
MaxSrcEntries == 2     \* entries below the source root in an initial state
MaxRepEntries == 2     \* entries below the replica root in an initial state
MaxDigestEntries == 4  \* entries below the first of the two trees handed to the fingerprinter
MaxDigestOther == 1    \* entries below the second of them
MaxLiveEntries == 1    \* entries below each root in an initial state of the scheduling check
MaxFaults == 1         \* operations the platform refuses in one behaviour
MaxPruneSource == 1    \* entries below the source root handed to remove_files on its own
MaxPruneReplica == 3   \* entries below the replica root handed to it

Times == 1..MaxTime

(***************************************************************************)
(* File contents, and the hexdigest hashlib.md5 gives each of them.        *)
(***************************************************************************)
Contents == {"hi", "ho"}

calculate_md5_hex(data) ==
    CASE data = "hi" -> "49f68a5c8493ec2c0bf489821c21fc3b"
      [] data = "ho" -> "b5d9b59113086d3f9f9f108adaaa9ab5"
      [] OTHER       -> "d41d8cd98f00b204e9800998ecf8427e"

(***************************************************************************)
(* Entry names.  LongName is a legal file name that ends up containing a   *)
(* hexdigest.  SortedNames is the order list.sort() puts the names in      *)
(* (code point order).                                                     *)
(***************************************************************************)
LongName == "a" \o calculate_md5_hex("hi") \o "b"
BaseNames == {"a", "b"}
Names == BaseNames \cup {LongName}
SortedNames == <<"a", LongName, "b">>

NameRank(n) == CHOOSE i \in 1..Len(SortedNames) : SortedNames[i] = n

(***************************************************************************)
(* Paths: args.source and args.replica, and everything below them.         *)
(***************************************************************************)
SourceRoot == <<"S">>
ReplicaRoot == <<"R">>
Roots == {SourceRoot, ReplicaRoot}

\* the paths of the two trees whose names are all taken from `names`
PathsOver(names) ==
    {r \o q : r \in Roots, q \in UNION {[1..n -> names] : n \in 0..MaxDepth}}

\* os.path.join(dir, item)
join(dir, item) == Append(dir, item)
\* os.path.dirname(path)
dirname(path) == SubSeq(path, 1, Len(path) - 1)

IsUnder(root, path) ==
    /\ Len(path) >= Len(root)
    /\ SubSeq(path, 1, Len(root)) = root

(***************************************************************************)
(* Filesystem entries.                                                     *)
(***************************************************************************)
NoEntry == [kind |-> "none", data |-> "", mtime |-> 0]
FileEntry(c, t) == [kind |-> "file", data |-> c, mtime |-> t]
DirEntry(t) == [kind |-> "dir", data |-> "", mtime |-> t]
Entries == {FileEntry(c, t) : c \in Contents, t \in Times}
             \cup {DirEntry(t) : t \in Times}

KindOf(f, path) == IF path \in DOMAIN f THEN f[path].kind ELSE "none"

\* os.path.exists / os.path.isfile / os.path.isdir / os.path.getmtime
exists(f, path) == KindOf(f, path) # "none"
isfile(f, path) == KindOf(f, path) = "file"
isdir(f, path) == KindOf(f, path) = "dir"
getmtime(f, path) == f[path].mtime

\* the names a directory holds
Children(f, dir) == {n \in Names : exists(f, join(dir, n))}

\* every order in which a listing (os.scandir, os.listdir) may return a set of names
RECURSIVE Orders(_)
Orders(S) ==
    IF S = {} THEN {<<>>}
    ELSE UNION {{<<n>> \o rest : rest \in Orders(S \ {n})} : n \in S}

(***************************************************************************)
(* list.sort(): insertion sort by code point order.                        *)
(***************************************************************************)
RECURSIVE Insert(_, _)
Insert(n, sorted) ==
    IF sorted = <<>> THEN <<n>>
    ELSE IF NameRank(n) <= NameRank(Head(sorted)) THEN <<n>> \o sorted
    ELSE <<Head(sorted)>> \o Insert(n, Tail(sorted))

\* the listing left as it came
sort_skipped(names) == names

RECURSIVE sort(_)
sort(names) ==
    IF names = <<>> THEN <<>> ELSE Insert(Head(names), sort(Tail(names)))

(***************************************************************************)
(* calculate_folder_md5.  hashlib.md5 over the stream is taken as          *)
(* injective: the digest is modelled by the byte stream fed to the hash.   *)
(***************************************************************************)
RECURSIVE JoinSep(_)
JoinSep(names) ==
    IF names = <<>> THEN ""
    ELSE IF Len(names) = 1 THEN names[1]
    ELSE names[1] \o "/" \o JoinSep(Tail(names))

\* os.path.relpath(file_path, folder)
relpath(file_path, folder) ==
    JoinSep(SubSeq(file_path, Len(folder) + 1, Len(file_path)))

\* the two update() calls made for one file
FileUpdate(f, folder, file_path) ==
    relpath(file_path, folder) \o calculate_md5_hex(f[file_path].data)

RECURSIVE FilesStream(_, _, _, _)
FilesStream(f, folder, dirpath, filenames) ==
    IF filenames = <<>> THEN ""
    ELSE FileUpdate(f, folder, join(dirpath, Head(filenames)))
           \o FilesStream(f, folder, dirpath, Tail(filenames))

\* the listing of one directory as os.walk hands it over, sorted in place
WalkDirnames(f, dirpath, listing) ==
    sort(SelectSeq(listing, LAMBDA n : isdir(f, join(dirpath, n))))
WalkFilenames(f, dirpath, listing) ==
    sort(SelectSeq(listing, LAMBDA n : ~isdir(f, join(dirpath, n))))

\* the streams os.walk can produce from dirpath on: one per choice of listing orders
RECURSIVE WalkStreams(_, _, _)
RECURSIVE WalkSubdirs(_, _, _, _)
WalkStreams(f, folder, dirpath) ==
    IF ~isdir(f, dirpath) THEN {""}
    ELSE UNION {
           {FilesStream(f, folder, dirpath, WalkFilenames(f, dirpath, listing)) \o rest :
               rest \in WalkSubdirs(f, folder, dirpath, WalkDirnames(f, dirpath, listing))} :
           listing \in Orders(Children(f, dirpath))}
WalkSubdirs(f, folder, dirpath, dirnames) ==
    IF dirnames = <<>> THEN {""}
    ELSE {first \o rest :
            first \in WalkStreams(f, folder, join(dirpath, Head(dirnames))),
            rest \in WalkSubdirs(f, folder, dirpath, Tail(dirnames))}

\* the values calculate_folder_md5(folder) can return
calculate_folder_md5(f, folder) == WalkStreams(f, folder, folder)


(***************************************************************************)
(* The state one pass threads through its calls: the filesystem, the       *)
(* history so far, the pending exception ("none" when there is none) and   *)
(* the clock.  Every operation maps such a state to the set of states it   *)
(* can leave: listings come in any order, and every operation that opens,  *)
(* writes or deletes may be refused by the platform (PermissionError).     *)
(***************************************************************************)
Entry(t, k, source, replica, obs) ==
    [t |-> t, k |-> k, src |-> source, rep |-> replica, obs |-> obs]

\* logging.info(...)
info(st, k, source, replica) ==
    [st EXCEPT !.tr = Append(@, Entry("log", k, source, replica, ""))]
\* history of a filesystem operation or of an observation
note(st, t, k, source, replica, obs) ==
    [st EXCEPT !.tr = Append(@, Entry(t, k, source, replica, obs))]
\* an exception leaves the operation k on the given paths
raise(st, err, k, source, replica) ==
    [st EXCEPT !.err = err, !.tr = Append(@, Entry("raise", k, source, replica, err))]

\* the platform may refuse the operation instead of performing it
Fallible(st, k, source, replica, outcomes) ==
    IF st.faults < MaxFaults
    THEN outcomes \cup {raise([st EXCEPT !.faults = @ + 1], "PermissionError", k, source, replica)}
    ELSE outcomes

\* run `F` on every state of S that carries no exception
Bind(S, F(_)) == UNION {IF s.err # "none" THEN {s} ELSE F(s) : s \in S}

\* a write into directory dir stamps it with the clock
Touch(f, dir, t) ==
    IF dir \in DOMAIN f /\ f[dir].kind = "dir" THEN [f EXCEPT ![dir].mtime = t] ELSE f

\* os.makedirs(path): the missing parents first
RECURSIVE makedirs_fs(_, _, _)
makedirs_fs(f, path, t) ==
    LET parent == dirname(path)
        g == IF parent \in DOMAIN f /\ ~exists(f, parent)
             THEN makedirs_fs(f, parent, t) ELSE f
    IN  Touch([g EXCEPT ![path] = DirEntry(t)], parent, t)

\* the nearest existing ancestor of path is a regular file
RECURSIVE BlockedByFile(_, _)
BlockedByFile(f, path) ==
    LET parent == dirname(path)
    IN  /\ parent \in DOMAIN f
        /\ \/ isfile(f, parent)
           \/ ~exists(f, parent) /\ BlockedByFile(f, parent)

makedirs(st, source, replica) ==
    IF BlockedByFile(st.fs, replica)
    THEN {raise(st, "NotADirectoryError", "makedirs", source, replica)}
    ELSE Fallible(st, "makedirs", source, replica,
           {note([st EXCEPT !.fs = makedirs_fs(st.fs, replica, st.now)],
                 "op", "makedirs", source, replica, "")})

\* a copy that does not carry the modification time over (shutil.copy)
copy2_fs_no_stat(f, source_path, replica_path, t) ==
    LET copied == [f EXCEPT ![replica_path] = FileEntry(f[source_path].data, t)]
    IN  IF exists(f, replica_path) THEN copied
        ELSE Touch(copied, dirname(replica_path), t)

\* shutil.copy2(source_path, replica_path): content and modification time
copy2_fs(f, source_path, replica_path, t) ==
    LET copied == [f EXCEPT ![replica_path] =
                      FileEntry(f[source_path].data, f[source_path].mtime)]
    IN  IF exists(f, replica_path) THEN copied
        ELSE Touch(copied, dirname(replica_path), t)

\* a copy made in the wrong direction, from the replica onto the source
copy2_reversed(st, source_path, replica_path) ==
    IF ~isdir(st.fs, dirname(replica_path)) /\ dirname(replica_path) \in DOMAIN st.fs
    THEN {raise(st, "NotADirectoryError", "copy2", source_path, replica_path)}
    ELSE Fallible(st, "copy2", source_path, replica_path,
           {note([st EXCEPT !.fs = copy2_fs(st.fs, replica_path, source_path, st.now)],
                 "op", "copy2", source_path, replica_path,
                 IF exists(st.fs, replica_path) THEN "overwrite" ELSE "new")})

copy2(st, source_path, replica_path) ==
    IF ~isdir(st.fs, dirname(replica_path)) /\ dirname(replica_path) \in DOMAIN st.fs
    THEN {raise(st, "NotADirectoryError", "copy2", source_path, replica_path)}
    ELSE Fallible(st, "copy2", source_path, replica_path,
           {note([st EXCEPT !.fs = copy2_fs(st.fs, source_path, replica_path, st.now)],
                 "op", "copy2", source_path, replica_path,
                 IF exists(st.fs, replica_path) THEN "overwrite" ELSE "new")})

\* a removal of the directory entry alone, what is below it left behind
rmtree_fs_top_only(f, replica_path, t) ==
    Touch([f EXCEPT ![replica_path] = NoEntry], dirname(replica_path), t)

\* shutil.rmtree(replica_path): the entry and everything below it
rmtree_fs(f, replica_path, t) ==
    Touch([p \in DOMAIN f |-> IF IsUnder(replica_path, p) THEN NoEntry ELSE f[p]],
          dirname(replica_path), t)

rmtree(st, source_path, replica_path) ==
    Fallible(st, "rmtree", source_path, replica_path,
       {note([st EXCEPT !.fs = rmtree_fs(st.fs, replica_path, st.now)],
             "op", "rmtree", source_path, replica_path, "")})

\* a removal that leaves the entry in place
remove_fs_kept(f, replica_path, t) == Touch(f, dirname(replica_path), t)

\* os.remove(replica_path)
remove_fs(f, replica_path, t) ==
    Touch([f EXCEPT ![replica_path] = NoEntry], dirname(replica_path), t)

remove(st, source_path, replica_path) ==
    Fallible(st, "remove", source_path, replica_path,
       {note([st EXCEPT !.fs = remove_fs(st.fs, replica_path, st.now)],
             "op", "remove", source_path, replica_path, "")})

\* calculate_md5(file): open() fails on a directory, and may fail of its own
calculate_md5(st, file, other) ==
    IF isdir(st.fs, file)
    THEN {raise(st, "IsADirectoryError", "calculate_md5", file, other)}
    ELSE Fallible(st, "calculate_md5", file, other, {st})

\* os.listdir(dir): the names in any order, or the exception
listdir(st, dir, other) ==
    IF isfile(st.fs, dir)
    THEN {raise(st, "NotADirectoryError", "listdir", dir, other)}
    ELSE IF ~exists(st.fs, dir)
    THEN {raise(st, "FileNotFoundError", "listdir", dir, other)}
    ELSE Fallible(st, "listdir", dir, other, {st})

\* the files calculate_folder_md5(folder) opens
RECURSIVE HasFileBelow(_, _)
HasFileBelow(f, dir) ==
    /\ isdir(f, dir)
    /\ \E n \in Children(f, dir) :
          ~isdir(f, join(dir, n)) \/ HasFileBelow(f, join(dir, n))

\* calculate_folder_md5 as sync_folders calls it: no effect, or the exception of
\* a read.  On a folder that is not a directory the listing made by os.walk
\* (line 80) raises, and os.walk drops the exception: the walk is empty.
folder_md5(st, folder, other) ==
    IF HasFileBelow(st.fs, folder)
    THEN Fallible(st, "calculate_folder_md5", folder, other, {st})
    ELSE IF exists(st.fs, folder) /\ ~isdir(st.fs, folder)
    THEN {note(st, "raise", "scandir", folder, other, "NotADirectoryError")}
    ELSE {st}

(***************************************************************************)
(* copy_files, remove_files, sync_folders.                                 *)
(***************************************************************************)
RECURSIVE sync_folders(_, _, _)

\* lines 116-124: one file of the source listing
copy_file(st, source_path, replica_path) ==
    IF ~exists(st.fs, replica_path)
    THEN Bind(copy2(st, source_path, replica_path),
              LAMBDA s : {info(s, "Copied file", source_path, replica_path)})
    ELSE IF getmtime(st.fs, source_path) > getmtime(st.fs, replica_path)
    THEN Bind(Bind(calculate_md5(st, source_path, replica_path),
                   LAMBDA s : calculate_md5(s, replica_path, source_path)),
              LAMBDA s :
                 LET differ == calculate_md5_hex(s.fs[source_path].data)
                                 # calculate_md5_hex(s.fs[replica_path].data)
                     t == note(s, "obs", "cmp_file_md5", source_path, replica_path,
                               IF differ THEN "differ" ELSE "equal")
                 IN  IF differ
                     THEN Bind(copy2(t, source_path, replica_path),
                               LAMBDA u : {info(u, "Copied the latest version of the file",
                                                source_path, replica_path)})
                     ELSE {t})
    ELSE {st}

\* a loop body that syncs a subdirectory a second time
copy_item_twice(st, source, replica, item) ==
    LET source_path == join(source, item)
        replica_path == join(replica, item)
    IN  IF isfile(st.fs, source_path) THEN copy_file(st, source_path, replica_path)
        ELSE IF isdir(st.fs, source_path)
        THEN Bind(sync_folders(st, source_path, replica_path),
                  LAMBDA s : sync_folders(s, source_path, replica_path))
        ELSE {st}

\* lines 113-127: one item of the source listing
copy_item(st, source, replica, item) ==
    LET source_path == join(source, item)
        replica_path == join(replica, item)
    IN  IF isfile(st.fs, source_path) THEN copy_file(st, source_path, replica_path)
        ELSE IF isdir(st.fs, source_path) THEN sync_folders(st, source_path, replica_path)
        ELSE {st}

\* the loop of copy_files over the items still to come, in any order
RECURSIVE copy_loop(_, _, _, _)
copy_loop(st, source, replica, items) ==
    IF items = {} THEN {st}
    ELSE UNION {Bind(copy_item(st, source, replica, item),
                     LAMBDA s : copy_loop(s, source, replica, items \ {item})) :
                item \in items}

copy_files(st, source, replica) ==
    Bind(Bind({note(st, "call", "copy_files", source, replica, "")},
              LAMBDA s : listdir(s, source, replica)),
         LAMBDA s :
            Bind(copy_loop(s, source, replica, Children(s.fs, source)),
                 LAMBDA u : {note(u, "ret", "copy_files", source, replica, "")}))

\* lines 144-154: one item of the replica listing
remove_item(st, source, replica, item) ==
    LET replica_path == join(replica, item)
        source_path == join(source, item)
    IN  IF ~exists(st.fs, source_path)
        THEN IF isdir(st.fs, replica_path)
             THEN Bind(rmtree(st, source_path, replica_path),
                       LAMBDA s : {info(s, "Removed folder", source_path, replica_path)})
             ELSE Bind(remove(st, source_path, replica_path),
                       LAMBDA s : {info(s, "Removed file", source_path, replica_path)})
        ELSE {st}

RECURSIVE remove_loop(_, _, _, _)
remove_loop(st, source, replica, items) ==
    IF items = {} THEN {st}
    ELSE UNION {Bind(remove_item(st, source, replica, item),
                     LAMBDA s : remove_loop(s, source, replica, items \ {item})) :
                item \in items}

remove_files(st, source, replica) ==
    Bind(Bind({note(st, "call", "remove_files", source, replica, "")},
              LAMBDA s : listdir(s, replica, source)),
         LAMBDA s :
            Bind(remove_loop(s, source, replica, Children(s.fs, replica)),
                 LAMBDA u : {note(u, "ret", "remove_files", source, replica, "")}))

\* the comparison of line 180 made strict
NotNewer_strict(f, source, replica) == getmtime(f, source) < getmtime(f, replica)

\* line 180: the source is not strictly newer than the replica
NotNewer(f, source, replica) == getmtime(f, source) <= getmtime(f, replica)

\* a comparison that never sees a difference
SameDigest_always(md5_s, md5_r) == TRUE

\* line 183: the two folder digests are equal
SameDigest(md5_s, md5_r) == md5_s = md5_r

\* the event of line 178 emitted before the folder is created
ensure_replica_event_first(st, source, replica) ==
    IF ~exists(st.fs, replica)
    THEN Bind({info(st, "Creating folder", source, replica)},
              LAMBDA s : makedirs(s, source, replica))
    ELSE {st}

\* lines 176-178
ensure_replica(st, source, replica) ==
    IF ~exists(st.fs, replica)
    THEN Bind(makedirs(st, source, replica),
              LAMBDA s : {info(s, "Creating folder", source, replica)})
    ELSE {st}

\* lines 188 and 189 in the other order
full_sync_prune_first(st, source, replica) ==
    Bind(Bind({info(st, "Sync folder", source, replica)},
              LAMBDA s : remove_files(s, source, replica)),
         LAMBDA s : copy_files(s, source, replica))

\* lines 187-189
full_sync(st, source, replica) ==
    Bind(Bind({info(st, "Sync folder", source, replica)},
              LAMBDA s : copy_files(s, source, replica)),
         LAMBDA s : remove_files(s, source, replica))

\* lines 180-189
decide(st, source, replica) ==
    LET stat == note(st, "obs", "stat_replica", source, replica, KindOf(st.fs, replica))
        seen == note(stat, "obs", "cmp_mtime", source, replica,
                     IF NotNewer(st.fs, source, replica) THEN "not_newer" ELSE "newer")
    IN  IF ~exists(st.fs, source)
        THEN {raise(st, "FileNotFoundError", "getmtime", source, replica)}
        ELSE IF NotNewer(st.fs, source, replica)
        THEN Bind(Bind(folder_md5(seen, source, replica),
                       LAMBDA s : folder_md5(s, replica, source)),
                  LAMBDA s : UNION {
                     IF SameDigest(md5_s, md5_r)
                     THEN {info(note(s, "obs", "cmp_folder_md5", source, replica, "equal"),
                                "No updates needed", source, replica)}
                     ELSE full_sync(note(s, "obs", "cmp_folder_md5", source, replica, "differ"),
                                    source, replica) :
                     md5_s \in calculate_folder_md5(s.fs, source),
                     md5_r \in calculate_folder_md5(s.fs, replica)})
        ELSE full_sync(seen, source, replica)

sync_folders(st, source, replica) ==
    Bind(Bind(Bind({note(st, "call", "sync_folders", source, replica, "")},
                   LAMBDA s : ensure_replica(s, source, replica)),
              LAMBDA s : decide(s, source, replica)),
         LAMBDA s : {note(s, "ret", "sync_folders", source, replica, "")})

(***************************************************************************)
(* Initial states: every pair of trees within the bounds.  The source root *)
(* is a directory or missing; the replica root is missing, a directory or  *)
(* a file.  The clock is not behind any modification time.                 *)
(***************************************************************************)
\* the paths below root whose names are all taken from `names`
Slots(root, names) ==
    {q \in PathsOver(names) : IsUnder(root, q) /\ Len(q) > Len(root)}

\* F with one more entry at a path of slots, in every possible way
Grow(F, slots, entries) ==
    F \cup {[x[1] EXCEPT ![x[2]] = e] :
              x \in {y \in F \X slots : ~exists(y[1], y[2]) /\ isdir(y[1], dirname(y[2]))},
              e \in entries}

RECURSIVE GrowN(_, _, _, _)
GrowN(F, slots, entries, n) ==
    IF n = 0 THEN F ELSE GrowN(Grow(F, slots, entries), slots, entries, n - 1)

\* every pair of trees on the given roots, within the bounds
Trees(roots, names, entries, nSource, nReplica) ==
    GrowN(GrowN(roots, Slots(SourceRoot, names), entries, nSource),
          Slots(ReplicaRoot, names), entries, nReplica)

RootFs ==
    {[p \in PathsOver(BaseNames) |-> IF p = SourceRoot THEN s
                      ELSE IF p = ReplicaRoot THEN r ELSE NoEntry] :
        s \in {DirEntry(t) : t \in Times} \cup {NoEntry},
        r \in Entries \cup {NoEntry}}

InitFs == Trees(RootFs, BaseNames, Entries, MaxSrcEntries, MaxRepEntries)

Init ==
    /\ fs \in InitFs
    /\ now = MaxTime
    /\ trace = <<>>
    /\ pc = "idle"
    /\ lastResult = "none"
    /\ prevResult = "none"
    /\ fsStart = fs
    /\ faults = 0
    /\ md5_source = ""
    /\ md5_replica = ""

(***************************************************************************)
(* main: the loop of lines 219-232.                                        *)
(***************************************************************************)
\* line 221
StartPass ==
    /\ pc = "idle"
    /\ pc' = "sync"
    /\ trace' = <<Entry("log", "Starting synchronization...", SourceRoot, ReplicaRoot, "")>>
    /\ fsStart' = fs
    /\ UNCHANGED <<fs, now, lastResult, prevResult, faults, md5_source, md5_replica>>

\* the states sync_folders(args.source, args.replica) can leave
PassOutcomes ==
    sync_folders([fs |-> fs, tr |-> trace, err |-> "none", now |-> now, faults |-> faults],
                 SourceRoot, ReplicaRoot)

\* the except clause of main an exception lands in
handler(err) ==
    CASE err = "FileNotFoundError" -> "File not found error"
      [] err = "PermissionError"   -> "Permission error"
      [] OTHER                     -> "An exception error"

\* a loop that starts over without the wait
AfterPass_no_wait == "idle"

\* where main goes once the try statement is left
AfterPass == "sleep"

EndPass(out, event, result) ==
    /\ fs' = out.fs
    /\ trace' = Append(out.tr, Entry("log", event, SourceRoot, ReplicaRoot, out.err))
    /\ prevResult' = lastResult
    /\ lastResult' = result
    /\ pc' = AfterPass
    /\ faults' = out.faults
    /\ UNCHANGED <<now, fsStart, md5_source, md5_replica>>

\* lines 222-223
SyncCompleted(out) ==
    /\ out.err = "none"
    /\ EndPass(out, "Synchronization completed.", "ok")

\* lines 222, 224-225
SyncFileNotFound(out) ==
    /\ out.err # "none"
    /\ handler(out.err) = "File not found error"
    /\ EndPass(out, "File not found error", "error")

\* lines 222, 226-227
SyncPermission(out) ==
    /\ out.err # "none"
    /\ handler(out.err) = "Permission error"
    /\ EndPass(out, "Permission error", "error")

\* lines 222, 228-229
SyncException(out) ==
    /\ out.err # "none"
    /\ handler(out.err) = "An exception error"
    /\ EndPass(out, "An exception error", "error")

\* lines 222-229: the call of sync_folders and the clause it ends in
SyncPass ==
    /\ pc = "sync"
    /\ \E out \in PassOutcomes :
          \/ SyncCompleted(out)
          \/ SyncFileNotFound(out)
          \/ SyncPermission(out)
          \/ SyncException(out)

\* lines 230-232: time.sleep(args.sync_interval); the clock may have moved on.
\* The history of the pass ends here.
Sleep ==
    /\ pc = "sleep"
    /\ pc' = "idle"
    /\ now' \in {t \in Times : t >= now}
    /\ trace' = <<>>
    /\ fsStart' = fs
    /\ UNCHANGED <<fs, lastResult, prevResult, faults, md5_source, md5_replica>>

Next ==
    \/ StartPass
    \/ SyncPass
    \/ Sleep

Spec == Init /\ [][Next]_vars

(***************************************************************************)
(* The loop under its scheduling: main is one sequential thread, so the    *)
(* step it is at is always taken in the end (sync_folders ends, time.sleep *)
(* returns).  The trees are smaller; the loop does not look at them.       *)
(***************************************************************************)
LiveInit ==
    /\ fs \in Trees(RootFs, BaseNames, Entries, MaxLiveEntries, MaxLiveEntries)
    /\ now = MaxTime
    /\ trace = <<>>
    /\ pc = "idle"
    /\ lastResult = "none"
    /\ prevResult = "none"
    /\ fsStart = fs
    /\ faults = 0
    /\ md5_source = ""
    /\ md5_replica = ""

LiveSpec ==
    /\ LiveInit
    /\ [][Next]_vars
    /\ WF_vars(StartPass)
    /\ WF_vars(SyncPass)
    /\ WF_vars(Sleep)

(***************************************************************************)
(* The fingerprinter on its own: calculate_folder_md5 applied to two       *)
(* directory trees, as in lines 181-182.  Modification times are not read  *)
(* by it, so the trees differ in names, kinds and contents only.           *)
(***************************************************************************)
DigestEntries == {FileEntry(c, 1) : c \in Contents} \cup {DirEntry(1)}

DigestRootFs ==
    {[p \in PathsOver(Names) |-> IF p \in Roots THEN DirEntry(1) ELSE NoEntry]}

DigestFs ==
    Trees(DigestRootFs, Names, DigestEntries, MaxDigestEntries, MaxDigestOther)

DigestInit ==
    /\ fs \in DigestFs
    /\ now = MaxTime
    /\ trace = <<>>
    /\ pc = "unhashed"
    /\ lastResult = "none"
    /\ prevResult = "none"
    /\ fsStart = fs
    /\ faults = 0
    /\ md5_source = ""
    /\ md5_replica = ""

\* lines 181-182
Fingerprint ==
    /\ pc = "unhashed"
    /\ pc' = "hashed"
    /\ md5_source' \in calculate_folder_md5(fs, SourceRoot)
    /\ md5_replica' \in calculate_folder_md5(fs, ReplicaRoot)
    /\ UNCHANGED <<fs, now, trace, lastResult, prevResult, fsStart, faults>>

DigestNext == Fingerprint

DigestSpec == DigestInit /\ [][DigestNext]_vars

(***************************************************************************)
(* The pruner on its own: remove_files(source, replica) called once on a   *)
(* pair of trees, as in line 189.  fsStart is the filesystem it is called  *)
(* on, trace the history of the call.                                      *)
(***************************************************************************)
PruneFs == Trees(RootFs, BaseNames, Entries, MaxPruneSource, MaxPruneReplica)

PruneInit ==
    /\ fs \in PruneFs
    /\ now = MaxTime
    /\ trace = <<>>
    /\ pc = "unpruned"
    /\ lastResult = "none"
    /\ prevResult = "none"
    /\ fsStart = fs
    /\ faults = 0
    /\ md5_source = ""
    /\ md5_replica = ""

\* line 189: the call returns or raises
Prune ==
    /\ pc = "unpruned"
    /\ pc' = "pruned"
    /\ \E out \in remove_files([fs |-> fs, tr |-> trace, err |-> "none",
                                now |-> now, faults |-> faults],
                               SourceRoot, ReplicaRoot) :
          /\ fs' = out.fs
          /\ trace' = out.tr
          /\ lastResult' = IF out.err = "none" THEN "ok" ELSE "error"
          /\ faults' = out.faults
    /\ UNCHANGED <<now, prevResult, fsStart, md5_source, md5_replica>>

PruneNext == Prune

PruneSpec == PruneInit /\ [][PruneNext]_vars

TypeOK ==
    /\ pc \in {"idle", "sync", "sleep", "unhashed", "hashed", "unpruned", "pruned"}
    /\ now \in Times
    /\ lastResult \in {"none", "ok", "error"}


(***************************************************************************)
(* Vocabulary of the properties.                                           *)
(***************************************************************************)
\* the path in the other tree at the same relative position
ToReplica(p) == ReplicaRoot \o SubSeq(p, Len(SourceRoot) + 1, Len(p))
ToSource(q) == SourceRoot \o SubSeq(q, Len(ReplicaRoot) + 1, Len(q))

SourcePaths == {p \in DOMAIN fs : IsUnder(SourceRoot, p)}
ReplicaPaths == {q \in DOMAIN fs : IsUnder(ReplicaRoot, q)}

\* the replica tree of a filesystem
ReplicaTree(f) == [q \in ReplicaPaths |-> f[q]]
SourceTree(f) == [p \in SourcePaths |-> f[p]]

Idx == 1..Len(trace)
IsLog(i, k) == trace[i].t = "log" /\ trace[i].k = k
Logged(k) == \E i \in Idx : IsLog(i, k)

CopyEvents == {"Copied file", "Copied the latest version of the file"}
RemoveEvents == {"Removed folder", "Removed file"}
ErrorEvents == {"File not found error", "Permission error", "An exception error"}

\* a pass has just ended, and how
PassEnded == pc = "sleep"
PassReturned == PassEnded /\ lastResult = "ok"
PassRaised == PassEnded /\ lastResult = "error"

(***************************************************************************)
(* C1.  Convergence: after a pass that returns without error, every file   *)
(* of the source exists at the same relative path in the replica with the  *)
(* same content, and no replica entry is left whose relative path is       *)
(* absent from the source.                                                 *)
(***************************************************************************)
C1_Convergence ==
    PassReturned =>
       /\ \A p \in SourcePaths :
             isfile(fs, p) =>
                /\ isfile(fs, ToReplica(p))
                /\ fs[ToReplica(p)].data = fs[p].data
       /\ \A q \in ReplicaPaths \ {ReplicaRoot} :
             exists(fs, q) => exists(fs, ToSource(q))

(***************************************************************************)
(* C2.  Idempotence: a pass that follows a pass which returned without     *)
(* error emits no copy event and no remove event, and leaves the replica   *)
(* tree as it found it.                                                    *)
(***************************************************************************)
C2_Idempotence ==
    (PassEnded /\ prevResult = "ok") =>
       /\ \A i \in Idx : ~(trace[i].t = "log" /\ trace[i].k \in CopyEvents \cup RemoveEvents)
       /\ ReplicaTree(fs) = ReplicaTree(fsStart)

\* a second pass that went through copy_files and remove_files and returned
C2_Witness ==
    /\ PassReturned
    /\ prevResult = "ok"
    /\ Logged("Sync folder")
    /\ \E i \in Idx : trace[i].t = "ret" /\ trace[i].k = "remove_files"
    /\ \E p \in SourcePaths : isfile(fs, p)

(***************************************************************************)
(* C3.  Digest equality law: the digests of two directory trees are equal  *)
(* if and only if the trees hold the same relative file paths with the     *)
(* same contents (empty directories do not count).                         *)
(***************************************************************************)
SameFiles ==
    \A p \in SourcePaths :
       /\ isfile(fs, p) <=> isfile(fs, ToReplica(p))
       /\ isfile(fs, p) => fs[p].data = fs[ToReplica(p)].data

C3_DigestEquality ==
    pc = "hashed" => ((md5_source = md5_replica) <=> SameFiles)

(***************************************************************************)
(* C5.  Folder structure mirroring: after a pass that returns without      *)
(* error the replica has exactly the directories of the source, empty ones *)
(* included.                                                               *)
(***************************************************************************)
C5_FoldersMirrored ==
    PassReturned =>
       \A p \in SourcePaths : isdir(fs, p) <=> isdir(fs, ToReplica(p))

(***************************************************************************)
(* C7.  Digest order-independence: whatever order the listings of the      *)
(* directories come in, at every level, calculate_folder_md5 returns the   *)
(* same value for a tree.                                                  *)
(***************************************************************************)
C7_OrderIndependent ==
    pc = "hashed" =>
       /\ calculate_folder_md5(fs, SourceRoot) = {md5_source}
       /\ calculate_folder_md5(fs, ReplicaRoot) = {md5_replica}

\* a hashed tree with a file at the top next to a subdirectory that holds two files
C7_Witness ==
    /\ pc = "hashed"
    /\ \E d \in Names, m \in Names :
          /\ m # d
          /\ isfile(fs, join(SourceRoot, m))
          /\ isdir(fs, join(SourceRoot, d))
          /\ Cardinality({n \in Children(fs, join(SourceRoot, d)) :
                            isfile(fs, join(join(SourceRoot, d), n))}) >= 2

(***************************************************************************)
(* C8.  Replica-directory existence: whenever sync_folders compares the    *)
(* modification times (and then the digests) of a pair, the replica path   *)
(* is a directory.                                                         *)
(***************************************************************************)
C8_ReplicaIsDirectory ==
    \A i \in Idx : trace[i].k = "stat_replica" => trace[i].obs = "dir"


(***************************************************************************)
(* C4.  Safety ordering on copy failure.                                   *)
(***************************************************************************)
IsOp(i, k) == trace[i].t = "op" /\ trace[i].k = k
IsDeletion(i) == IsOp(i, "rmtree") \/ IsOp(i, "remove")

\* the copies that failed in this pass
FailedCopies == {i \in Idx : trace[i].t = "raise" /\ trace[i].k = "copy2"}

\* d is dir or a directory above it
IsAtOrAbove(d, dir) == IsUnder(d, dir)

\* C4 as claimed: in a pass in which a file copy fails, no replica entry that
\* existed before the pass, other than the target of the failed copy, is
\* deleted: no pruning has been performed anywhere in the replica tree.
C4_NothingPrunedWhenCopyFails ==
    PassEnded =>
       \A i \in FailedCopies :
          /\ \A q \in ReplicaPaths :
                (exists(fsStart, q) /\ q # trace[i].rep) => exists(fs, q)
          /\ \A j \in Idx : ~IsDeletion(j)

\* C4: in a pass in which a file copy fails, the prune step of the directory
\* of the failed copy and of every directory above it is never run: no entry
\* directly inside those directories is deleted and nothing is deleted once
\* the copy has failed.  Deletions made before by the completed sync of a
\* subdirectory stand.
C4_NoPruneAtOrAboveFailedCopy ==
    PassEnded =>
       \A i \in FailedCopies :
          LET dir == dirname(trace[i].rep)
          IN  /\ \A q \in ReplicaPaths \ {ReplicaRoot} :
                    (IsAtOrAbove(dirname(q), dir) /\ exists(fsStart, q)) => exists(fs, q)
              /\ \A j \in Idx :
                    /\ IsDeletion(j) => j < i /\ ~IsAtOrAbove(dirname(trace[j].rep), dir)
                    /\ (trace[j].t = "call" /\ trace[j].k = "remove_files")
                          => ~IsAtOrAbove(trace[j].rep, dir)

\* a copy at the top failed after the sync of a subdirectory had pruned an entry
C4_Witness ==
    /\ PassRaised
    /\ \E i \in FailedCopies : \E j \in Idx :
          /\ IsDeletion(j)
          /\ j < i
          /\ dirname(trace[i].rep) = ReplicaRoot
          /\ exists(fsStart, trace[j].rep) /\ ~exists(fs, trace[j].rep)

(***************************************************************************)
(* C6.  Scheduler resilience: a pass that raises logs exactly one error    *)
(* event and no completion event, every pass is followed by the wait, one  *)
(* pass at most is under way, and after the wait the next pass is started. *)
(***************************************************************************)
CountLogs(K) == Cardinality({i \in Idx : trace[i].t = "log" /\ trace[i].k \in K})

OneErrorEvent ==
    PassRaised =>
       /\ CountLogs(ErrorEvents) = 1
       /\ CountLogs({"Synchronization completed."}) = 0
       /\ trace[Len(trace)].k \in ErrorEvents

OnePassAtATime ==
    /\ CountLogs({"Starting synchronization..."}) <= 1
    /\ Cardinality({i \in Idx : /\ trace[i].t = "call" /\ trace[i].k = "sync_folders"
                                /\ trace[i].rep = ReplicaRoot}) <= 1
    /\ pc = "sync" => CountLogs({"Starting synchronization..."}) = 1

WaitAfterEveryPass == (pc = "sync" /\ pc' # "sync") => pc' = "sleep"

C6_SchedulerResilience ==
    /\ [](OneErrorEvent /\ OnePassAtATime)
    /\ [][WaitAfterEveryPass]_vars
    /\ (PassRaised ~> (pc = "idle"))
    /\ ((pc = "idle") ~> (pc = "sync"))

\* a pass has raised into each of the three except clauses
C6_Witness ==
    /\ PassRaised
    /\ \E i \in Idx : trace[i].t = "raise"
    /\ CountLogs(ErrorEvents) = 1

(***************************************************************************)
(* C9.  Per-directory step order.                                          *)
(***************************************************************************)
Pos(t, k, r) == {i \in Idx : trace[i].t = t /\ trace[i].k = k /\ trace[i].rep = r}

\* the replica directories sync_folders was called on in this pass
Synced == {trace[i].rep : i \in {j \in Idx : trace[j].t = "call" /\ trace[j].k = "sync_folders"}}

Decisions(r) == Pos("log", "No updates needed", r) \cup Pos("log", "Sync folder", r)

\* what the prune of directory r did: its deletions and their events
PruneWork(r) ==
    {i \in Idx : /\ dirname(trace[i].rep) = r
                 /\ \/ IsDeletion(i)
                    \/ trace[i].t = "log" /\ trace[i].k \in RemoveEvents
                    \/ trace[i].t = "raise" /\ trace[i].k \in {"rmtree", "remove"}}

\* what the copy step of directory r did: everything below r that is not its prune
CopyWork(r) ==
    {i \in Idx : IsUnder(r, trace[i].rep) /\ trace[i].rep # r} \ PruneWork(r)

\* C9: every sync_folders call logs at most one 'Creating folder', then at most
\* one of 'No updates needed' and 'Sync folder' (exactly one when it returns);
\* 'No updates needed' ends the call with no copy and no prune; after 'Sync
\* folder' all the copy work of the directory, the syncs of its subdirectories
\* included, precedes its first deletion, and remove_files is only ever called
\* after copy_files has returned.
C9_StepOrder ==
    \A r \in Synced :
       /\ Cardinality(Pos("call", "sync_folders", r)) = 1
       /\ Cardinality(Pos("log", "Creating folder", r)) <= 1
       /\ Cardinality(Decisions(r)) <= 1
       /\ Pos("ret", "sync_folders", r) # {} => Cardinality(Decisions(r)) = 1
       /\ \A c \in Pos("call", "sync_folders", r) \cup Pos("log", "Creating folder", r) :
             \A d \in Decisions(r) : c < d
       /\ \A d \in Pos("log", "No updates needed", r) :
             /\ Pos("call", "copy_files", r) = {}
             /\ Pos("call", "remove_files", r) = {}
             /\ CopyWork(r) = {} /\ PruneWork(r) = {}
             /\ d < Len(trace) /\ trace[d + 1] = Entry("ret", "sync_folders", trace[d].src, r, "")
       /\ \A d \in Pos("log", "Sync folder", r) :
             /\ \A w \in CopyWork(r) \cup PruneWork(r) : d < w
             /\ d < Len(trace) /\ trace[d + 1] = Entry("call", "copy_files", trace[d].src, r, "")
       /\ \A w \in CopyWork(r) : \A x \in PruneWork(r) : w < x
       /\ \A x \in Pos("call", "remove_files", r) :
             /\ x > 1 /\ trace[x - 1] = Entry("ret", "copy_files", trace[x].src, r, "")
             /\ \A w \in CopyWork(r) : w < x
       /\ \A x \in PruneWork(r) : \E y \in Pos("call", "remove_files", r) : y < x

\* a pass whose top directory recursed into a subdirectory that copied a file,
\* and then pruned an entry of its own
C9_Witness ==
    /\ PassReturned
    /\ \E i \in Idx : IsOp(i, "copy2") /\ Len(trace[i].rep) = Len(ReplicaRoot) + 2
    /\ \E j \in PruneWork(ReplicaRoot) : IsDeletion(j)
    /\ \E r \in Synced : r # ReplicaRoot /\ Pos("log", "Creating folder", r) # {}

(***************************************************************************)
(* C10.  Short-circuit decision and frame.                                 *)
(***************************************************************************)
\* the filesystem the top call decides on: the one the pass started from, with
\* the replica root created if it was missing
fsDecide ==
    IF exists(fsStart, ReplicaRoot) THEN fsStart
    ELSE [fsStart EXCEPT ![ReplicaRoot] = DirEntry(now)]

Obs(k, r) == {trace[i].obs : i \in Pos("obs", k, r)}

\* C10: a call logs 'No updates needed' exactly when the source directory is not
\* strictly newer than the replica and the two folder digests are equal; it then
\* changes nothing below the pair and emits no copy or remove event; when the
\* source is strictly newer it logs 'Sync folder' and goes on to copy and prune
\* without the two folder digests of the pair being computed or compared.
C10_ShortCircuit ==
    /\ \A r \in Synced :
          /\ Decisions(r) # {} =>
                (Pos("log", "No updates needed", r) # {}
                    <=> (Obs("cmp_mtime", r) = {"not_newer"}
                           /\ Obs("cmp_folder_md5", r) = {"equal"}))
          /\ Pos("log", "No updates needed", r) # {} =>
                \A i \in Idx :
                   /\ (trace[i].t = "op" /\ IsUnder(r, trace[i].rep))
                         => (IsOp(i, "makedirs") /\ trace[i].rep = r
                               /\ \A d \in Decisions(r) : i < d)
                   /\ (trace[i].t = "log" /\ IsUnder(r, trace[i].rep))
                         => trace[i].k \notin CopyEvents \cup RemoveEvents
          /\ Obs("cmp_mtime", r) = {"newer"} =>
                /\ Pos("obs", "cmp_folder_md5", r) = {}
                /\ Pos("raise", "calculate_folder_md5", r) = {}
                /\ Pos("log", "Sync folder", r) # {}
                /\ Pos("call", "copy_files", r) # {}
    /\ (PassEnded /\ Decisions(ReplicaRoot) # {}) =>
          /\ Pos("log", "No updates needed", ReplicaRoot) # {}
                <=> /\ fsDecide[SourceRoot].mtime <= fsDecide[ReplicaRoot].mtime
                    /\ calculate_folder_md5(fsDecide, SourceRoot)
                          = calculate_folder_md5(fsDecide, ReplicaRoot)
          /\ Pos("log", "No updates needed", ReplicaRoot) # {} => fs = fsDecide
          /\ (fsDecide[SourceRoot].mtime > fsDecide[ReplicaRoot].mtime)
                => Pos("obs", "cmp_folder_md5", ReplicaRoot) = {}

\* a pass whose top call found the source newer, and whose call on a
\* subdirectory found nothing to update
C10_Witness ==
    /\ PassReturned
    /\ Obs("cmp_mtime", ReplicaRoot) = {"newer"}
    /\ \E r \in Synced :
          /\ r # ReplicaRoot
          /\ Pos("log", "No updates needed", r) # {}
          /\ \E n \in Names : isfile(fs, join(r, n))

(***************************************************************************)
(* C11.  File-level copy decision.                                         *)
(***************************************************************************)
\* the copies made onto replica path q in this pass
CopiedTo(q) == {i \in Idx : IsOp(i, "copy2") /\ trace[i].rep = q}

\* the cases in which file p is to be copied onto q: no entry q, or a file q
\* older than p with another content
ShouldCopy(f, p, q) ==
    \/ ~exists(f, q)
    \/ /\ isfile(f, q)
       /\ getmtime(f, p) > getmtime(f, q)
       /\ f[p].data # f[q].data

\* the events of kind k about replica path q
EventsOn(k, q) == Pos("log", k, q)

\* C11: for every regular file p of a source directory copy_files was called
\* on, with q its replica path: q is copied at most once, and only when no
\* entry q existed or q was a file older than p with another content; once
\* copy_files has returned on the directory, q has been copied exactly in
\* those cases.  A copied q has p's content and modification time and the one
\* event of its case ('Copied file' for a new q, 'Copied the latest version of
\* the file' for an overwritten q); a q that was not copied is as it was and
\* has no copy event.
C11_FileCopyDecision ==
    \A p \in SourcePaths :
       LET q == ToReplica(p)
           dir == dirname(q)
           new == EventsOn("Copied file", q)
           upd == EventsOn("Copied the latest version of the file", q)
       IN  (isfile(fsStart, p) /\ Pos("call", "copy_files", dir) # {}) =>
              /\ Cardinality(CopiedTo(q)) <= 1
              /\ CopiedTo(q) # {} =>
                    /\ ShouldCopy(fsStart, p, q)
                    /\ fs[q] = FileEntry(fsStart[p].data, fsStart[p].mtime)
                    /\ IF exists(fsStart, q)
                       THEN Cardinality(upd) = 1 /\ new = {}
                       ELSE Cardinality(new) = 1 /\ upd = {}
                    /\ \A i \in CopiedTo(q) : \A e \in new \cup upd : e = i + 1
              /\ CopiedTo(q) = {} =>
                    /\ fs[q] = fsStart[q]
                    /\ new = {} /\ upd = {}
              /\ Pos("ret", "copy_files", dir) # {} =>
                    (CopiedTo(q) # {} <=> ShouldCopy(fsStart, p, q))

\* a returned pass that overwrote an older replica file of another content and
\* left alone an older replica file of the same content
C11_Witness ==
    /\ PassReturned
    /\ \E p1 \in SourcePaths, p2 \in SourcePaths :
          /\ p1 # p2
          /\ isfile(fsStart, p1) /\ isfile(fsStart, ToReplica(p1))
          /\ \E i \in CopiedTo(ToReplica(p1)) : trace[i].obs = "overwrite"
          /\ fsStart[ToReplica(p1)].data # fs[ToReplica(p1)].data
          /\ isfile(fsStart, p2) /\ isfile(fsStart, ToReplica(p2))
          /\ getmtime(fsStart, p2) > getmtime(fsStart, ToReplica(p2))
          /\ fsStart[p2].data = fsStart[ToReplica(p2)].data
          /\ Pos("obs", "cmp_file_md5", ToReplica(p2)) # {}
          /\ fs[ToReplica(p2)] = fsStart[ToReplica(p2)]

(***************************************************************************)
(* C12.  Single-level pruning.                                             *)
(***************************************************************************)
\* remove_files(SourceRoot, ReplicaRoot) has returned
Pruned == pc = "pruned" /\ lastResult = "ok"

\* the names of the replica's top-level listing that the source does not have
Extra == {n \in Children(fsStart, ReplicaRoot) : ~exists(fsStart, join(SourceRoot, n))}

\* C12: once remove_files(source, replica) has returned, every name the replica
\* lists at its top level is a name of the source; every entry the replica
\* had at its top level under a name the source lacks is gone with all that
\* was below it; every other replica entry, of whatever kind, is exactly as it
\* was with everything below it; and each deleted top-level entry has exactly
\* one event, 'Removed folder' for a directory and 'Removed file' otherwise,
\* and there are no other remove events.
C12_SingleLevelPrune ==
    Pruned =>
       /\ \A n \in Children(fs, ReplicaRoot) : exists(fs, join(SourceRoot, n))
       /\ \A q \in ReplicaPaths \ {ReplicaRoot} :
             fs[q] = IF q[Len(ReplicaRoot) + 1] \in Extra THEN NoEntry ELSE fsStart[q]
       /\ \A n \in Names :
             LET q == join(ReplicaRoot, n)
                 folder == Cardinality(Pos("log", "Removed folder", q))
                 file == Cardinality(Pos("log", "Removed file", q))
             IN  /\ folder = IF n \in Extra /\ isdir(fsStart, q) THEN 1 ELSE 0
                 /\ file = IF n \in Extra /\ ~isdir(fsStart, q) THEN 1 ELSE 0
       /\ CountLogs(RemoveEvents) = Cardinality(Extra)

\* a returned call that removed a directory which held an entry, and kept a
\* replica file whose name is that of a source directory
C12_Witness ==
    /\ Pruned
    /\ \E n \in Extra, m \in Names :
          /\ isdir(fsStart, join(ReplicaRoot, n))
          /\ Children(fsStart, join(ReplicaRoot, n)) # {}
          /\ Pos("op", "rmtree", join(ReplicaRoot, n)) # {}
          /\ isfile(fs, join(ReplicaRoot, m))
          /\ isdir(fs, join(SourceRoot, m))

(***************************************************************************)
(* C13.  Error propagation: every exception a filesystem operation raises  *)
(* during a pass ends the pass at once and reaches main: it is the last    *)
(* thing the pass did (no copy, deletion, folder creation or event follows *)
(* it), and the pass ends in the except clause of that exception.          *)
(***************************************************************************)
Raised == {i \in Idx : trace[i].t = "raise"}

C13_ErrorsPropagate ==
    PassEnded =>
       \A i \in Raised :
          /\ lastResult = "error"
          /\ i = Len(trace) - 1
          /\ trace[Len(trace)].k = handler(trace[i].obs)
          /\ trace[Len(trace)].obs = trace[i].obs

(***************************************************************************)
(* C14.  Event completeness.                                               *)
(***************************************************************************)
ChangeEvents == CopyEvents \cup RemoveEvents \cup {"Creating folder"}

\* the event that belongs to the operation recorded at position i
EventOf(i) ==
    CASE IsOp(i, "makedirs") -> "Creating folder"
      [] IsOp(i, "copy2") /\ trace[i].obs = "new" -> "Copied file"
      [] IsOp(i, "copy2") /\ trace[i].obs = "overwrite"
            -> "Copied the latest version of the file"
      [] IsOp(i, "rmtree") -> "Removed folder"
      [] IsOp(i, "remove") -> "Removed file"
      [] OTHER -> "none"

\* the entry at q differs from what it was (the modification time of a
\* directory, which every write inside it moves, is not looked at)
Changed(q) ==
    \/ KindOf(fs, q) # KindOf(fsStart, q)
    \/ isfile(fs, q) /\ fs[q] # fsStart[q]

OlderSource ==
    /\ Pos("obs", "cmp_mtime", ReplicaRoot) # {}
    /\ isdir(fsDecide, SourceRoot)
    /\ isdir(fsDecide, ReplicaRoot)
    /\ getmtime(fsDecide, SourceRoot) <= getmtime(fsDecide, ReplicaRoot)

\* the two folder digests the top call computes are different
DigestsDiffer ==
    calculate_folder_md5(fsDecide, SourceRoot) # calculate_folder_md5(fsDecide, ReplicaRoot)

SourceUntouched == \A p \in SourcePaths : fs'[p] = fs[p]

\* every write and every delete of the pass was applied to a path of the
\* replica tree
WritesOnReplicaOnly ==
    \A i \in Idx :
       trace[i].t = "op" =>
          /\ IsUnder(ReplicaRoot, trace[i].rep)
          /\ ~IsUnder(SourceRoot, trace[i].rep)

\* C16: over any sequence of passes, returned or raised, no entry of the source
\* tree is ever created, modified, deleted or given another modification
\* time, and every operation that writes or deletes is applied to a path under
\* the replica.
C16_SourceReadOnly ==
    /\ [][SourceUntouched]_vars
    /\ []WritesOnReplicaOnly
    /\ [](SourceTree(fs) = SourceTree(fsStart))

\* a pass that followed another one and both copied onto and deleted from the
\* replica, next to a source tree that holds a file in a subdirectory
C16_Witness ==
    /\ PassEnded
    /\ prevResult # "none"
    /\ \E i \in Idx : IsOp(i, "copy2")
    /\ \E i \in Idx : IsDeletion(i)
    /\ \E p \in SourcePaths : isfile(fs, p) /\ Len(p) > Len(SourceRoot) + 1

(***************************************************************************)
(* C17.  Pass termination.                                                 *)
(***************************************************************************)
Calls == {i \in Idx : trace[i].t = "call" /\ trace[i].k = "sync_folders"}
Returns == {i \in Idx : trace[i].t = "ret" /\ trace[i].k = "sync_folders"}

\* the call at position i has not returned by position j
OpenAt(i, j) == \A x \in Returns : (i < x /\ x < j) => trace[x].rep # trace[i].rep

\* the root call the pass is about to make ends: it has an outcome, and each
\* outcome is a return (the history ends with the return of the root call) or
\* an exception (the history ends with its raise)
RootCallEnds ==
    /\ PassOutcomes # {}
    /\ \A out \in PassOutcomes :
          LET last == out.tr[Len(out.tr)]
          IN  IF out.err = "none"
              THEN last = Entry("ret", "sync_folders", SourceRoot, ReplicaRoot, "")
              ELSE last.t = "raise" /\ last.obs = out.err

\* C17: the root call of every pass ends, by returning or by raising; every
\* other sync_folders call of the pass is made from the still running call on
\* the parent directory, on a source directory one level deeper, and no source
\* directory is synced twice in a pass; in a pass that returned every call
\* has returned.
C17_PassTerminates ==
    /\ pc = "sync" => RootCallEnds
    /\ \A j \in Calls :
          /\ trace[j].rep = ToReplica(trace[j].src)
          /\ \A i \in Calls : trace[i].src = trace[j].src => i = j
          /\ trace[j].src # SourceRoot =>
                /\ isdir(fsStart, trace[j].src)
                /\ \E i \in Calls :
                      /\ i < j
                      /\ trace[i].src = dirname(trace[j].src)
                      /\ Len(trace[j].src) = Len(trace[i].src) + 1
                      /\ OpenAt(i, j)
    /\ PassReturned =>
          \A i \in Calls : \E x \in Returns : i < x /\ trace[x].rep = trace[i].rep
    /\ PassRaised => Raised # {}

\* a returned pass whose calls went two levels below the root: the root call,
\* the call on a subdirectory and the call on a directory inside it
C17_Witness ==
    /\ PassReturned
    /\ \E j \in Calls : Len(trace[j].src) = Len(SourceRoot) + 2
    /\ Cardinality(Calls) >= 3

=============================================================================
